---- MODULE Spec2Model ----
(***************************************************************************)
(* Model of the packed bit-plane buffer of alp4-rs (src/src/bitplane.rs):  *)
(* Bitplanes<D>, its accessors, views, plane swap and cross-buffer copy.   *)
(*                                                                         *)
(* Owned buffers hold their bytes in an arena; a view (Bitplanes<&mut      *)
(* [u8]>) is an (offset, length) window into the arena of the owned buffer *)
(* it descends from.  A buffer that has a live view borrowed from it       *)
(* cannot be used until the view is gone (Rust's &mut borrow).  A panic is *)
(* terminal: the model records its message and stops.                      *)
(***************************************************************************)
EXTENDS Integers, Sequences, FiniteSets, TLC

\* ------------------------------------------------------------------ bounds
MaxPlanes == 3
MaxHeight == 2
MaxBufs == 3
MaxOps == 2
\* extra bytes of row / plane padding a custom layout may carry (SpecCopy)
MaxPad == 1
\* Stands for 2^64, the modulus usize wraps by when overflow checks are off:
\* TLC's integers cannot hold 2^64, and any value above every plane count of
\* the model behaves alike.
UsizeModulus == 65536

Widths == {0, 10}
Generators == {"checker", "stripe"}
Slots == 1..MaxBufs
Shapes == (0..MaxPlanes) \X Widths \X (0..MaxHeight)

VARIABLES
  bufs,    \* slot -> Bitplanes record (kind "none" for a free slot)
  arena,   \* slot -> the Vec<u8> an owned buffer holds (<<>> otherwise)
  panic,   \* "" or the message of the panic that ended the program
  last,    \* the last operation: name, receiver, arguments, results
  pre,     \* arena as it was before the last operation
  calls,   \* the coordinates the generator was invoked with, in order
  nops,    \* number of operations performed
  overflow_checks  \* the build panics on integer overflow (debug) or wraps (release)

vars == <<bufs, arena, panic, last, pre, calls, nops, overflow_checks>>

\* ------------------------------------------------------------------ helpers
Min(a, b) == IF a <= b THEN a ELSE b
Max(a, b) == IF a >= b THEN a ELSE b

\* byte & (1 << k)
AndMask(byte, k) == ((byte \div (2^k)) % 2) * (2^k)
\* byte | (1 << k)
OrMask(byte, k) == byte + (2^k) - AndMask(byte, k)
\* byte & !(1 << k)
ClearMask(byte, k) == byte - AndMask(byte, k)

\* usize subtraction with overflow checks off
WrapSub(a, b) == IF a >= b THEN a - b ELSE UsizeModulus - (b - a)

\* slice.chunks(n) for n > 0: consecutive pieces of n elements, the last one
\* possibly shorter
Chunks(s, n) ==
  [i \in 1..((Len(s) + n - 1) \div n) |->
     SubSeq(s, (i - 1) * n + 1, Min(i * n, Len(s)))]

RECURSIVE Flatten(_)
Flatten(ss) == IF ss = <<>> THEN <<>> ELSE Head(ss) \o Flatten(Tail(ss))

\* the generator closures the model passes to from_fn / fill_from_fn
Gen(g, p, x, y) ==
  IF g = "checker" THEN (p + x + y) % 2 = 1
  ELSE (x % 3 = 0) # (p % 2 = 1)

NoBuf ==
  [kind |-> "none", width |-> 0, height |-> 0, planes |-> 0,
   plane_stride |-> 0, row_stride |-> 0,
   root |-> 0, off |-> 0, len |-> 0, parent |-> 0]

Op(name, b, a, v, g, out) ==
  [op |-> name, b |-> b, a |-> a, v |-> v, g |-> g, out |-> out]

\* ------------------------------------------------------------------ geometry
\* mutant: bits packed least-significant first
CalcIndicesLsbFirst(b, plane, x, y) ==
  <<(b.plane_stride * plane) + (b.row_stride * y) + (x \div 8), x % 8>>

CalcIndices(b, plane, x, y) ==
  <<(b.plane_stride * plane) + (b.row_stride * y) + (x \div 8), 7 - (x % 8)>>

GetBit(b, data, plane, x, y) ==
  LET ci == CalcIndices(b, plane, x, y)
  IN AndMask(data[ci[1] + 1], ci[2]) > 0

SetBit(b, data, plane, x, y, val) ==
  LET ci == CalcIndices(b, plane, x, y)
  IN [data EXCEPT ![ci[1] + 1] =
        IF val THEN OrMask(@, ci[2]) ELSE ClearMask(@, ci[2])]

FillBytes(data, val) == [i \in 1..Len(data) |-> IF val THEN 255 ELSE 0]

\* ------------------------------------------------------------------ storage
Free(s) == bufs[s].kind = "none"
Live(s) == ~Free(s)
Borrowed(s) == \E c \in Slots : Live(c) /\ bufs[c].parent = s
Usable(s) == Live(s) /\ ~Borrowed(s)
FreeSlots == {s \in Slots : Free(s)}
FirstFree == CHOOSE s \in FreeSlots : \A t \in FreeSlots : s <= t

\* as_slice / as_slice_mut of the buffer b over the arenas mem
SliceOf(b, mem) == SubSeq(mem[b.root], b.off + 1, b.off + b.len)
AsSlice(s) == SliceOf(bufs[s], arena)

\* the arenas after the slice of buffer b is overwritten by d
Store(b, d) ==
  [arena EXCEPT ![b.root] =
     SubSeq(@, 1, b.off) \o d \o SubSeq(@, b.off + b.len + 1, Len(@))]

Get(s, plane, x, y) == GetBit(bufs[s], AsSlice(s), plane, x, y)

CanStep == panic = "" /\ nops < MaxOps

Panics(msg, o) ==
  /\ panic' = msg
  /\ last' = o
  /\ pre' = arena
  /\ calls' = <<>>
  /\ nops' = nops + 1
  /\ UNCHANGED <<bufs, arena, overflow_checks>>

\* ------------------------------------------------------------------ construction
\* mutant: the row stride rounded down
RowStrideFloor(width) == width \div 8

RowStride(width) == (width + 7) \div 8

NewBuf(slot, planes, width, height) ==
  LET row_stride == RowStride(width)
      plane_stride == row_stride * height
  IN [kind |-> "owned", width |-> width, height |-> height, planes |-> planes,
      plane_stride |-> plane_stride, row_stride |-> row_stride,
      root |-> slot, off |-> 0, len |-> plane_stride * planes, parent |-> 0]

NewData(planes, width, height) ==
  [i \in 1..(RowStride(width) * height * planes) |-> 0]

\* ------------------------------------------------------------------ fill_from_fn
RECURSIVE FillRow(_, _, _, _, _, _)
FillRow(row, g, i, y, x, width) ==
  IF x >= width THEN row
  ELSE FillRow([row EXCEPT ![(x \div 8) + 1] =
                  IF Gen(g, i, x, y) THEN OrMask(@, 7 - (x % 8))
                  ELSE ClearMask(@, 7 - (x % 8))],
               g, i, y, x + 1, width)

FillPlane(b, plane, g, i) ==
  LET rows == Chunks(plane, b.row_stride)
  IN Flatten([y \in 1..Len(rows) |-> FillRow(rows[y], g, i - 1, y - 1, 0, b.width)])

\* chunks_mut panics on a chunk size of zero, before anything is written
FillFromFnPanics(b, data) ==
  \/ b.plane_stride = 0
  \/ Len(data) > 0 /\ b.row_stride = 0

\* mutant: the planes cut by the row stride
FillFromFnDataByRows(b, data, g) ==
  LET planes == Chunks(data, b.row_stride)
  IN Flatten([i \in 1..Len(planes) |-> FillPlane(b, planes[i], g, i)])

FillFromFnData(b, data, g) ==
  LET planes == Chunks(data, b.plane_stride)
  IN Flatten([i \in 1..Len(planes) |-> FillPlane(b, planes[i], g, i)])

\* the (plane, x, y) the loops hand to f, in order
FillFromFnCalls(b, data) ==
  LET planes == Chunks(data, b.plane_stride)
  IN Flatten([i \in 1..Len(planes) |->
       LET rows == Chunks(planes[i], b.row_stride)
       IN Flatten([y \in 1..Len(rows) |->
            [x \in 1..b.width |-> <<i - 1, x - 1, y - 1>>]])])

\* ------------------------------------------------------------------ Init
InitNew(planes, width, height) ==
  /\ bufs = [s \in Slots |-> IF s = 1 THEN NewBuf(1, planes, width, height) ELSE NoBuf]
  /\ arena = [s \in Slots |-> IF s = 1 THEN NewData(planes, width, height) ELSE <<>>]
  /\ panic = ""
  /\ last = Op("new", 0, <<planes, width, height>>, FALSE, "", <<1>>)
  /\ pre = [s \in Slots |-> <<>>]
  /\ calls = <<>>
  /\ nops = 0
  /\ overflow_checks \in BOOLEAN

InitFromFn(planes, width, height, g) ==
  LET b == NewBuf(1, planes, width, height)
      zero == NewData(planes, width, height)
      bad == FillFromFnPanics(b, zero)
  IN /\ bufs = [s \in Slots |-> IF s = 1 /\ ~bad THEN b ELSE NoBuf]
     /\ arena = [s \in Slots |-> IF s = 1 /\ ~bad THEN FillFromFnData(b, zero, g) ELSE <<>>]
     /\ panic = IF bad THEN "chunk size must be non-zero" ELSE ""
     /\ last = Op("from_fn", 0, <<planes, width, height>>, FALSE, g, IF bad THEN <<>> ELSE <<1>>)
     /\ pre = [s \in Slots |-> <<>>]
     /\ calls = IF bad THEN <<>> ELSE FillFromFnCalls(b, zero)
     /\ nops = 0
     /\ overflow_checks \in BOOLEAN

Init ==
  \/ \E sh \in Shapes : InitNew(sh[1], sh[2], sh[3])
  \/ \E sh \in Shapes, g \in Generators : InitFromFn(sh[1], sh[2], sh[3], g)

\* ------------------------------------------------------------------ actions
Done(o, newbufs, newarena, newcalls) ==
  /\ bufs' = newbufs
  /\ arena' = newarena
  /\ panic' = ""
  /\ last' = o
  /\ pre' = arena
  /\ calls' = newcalls
  /\ nops' = nops + 1
  /\ UNCHANGED overflow_checks

New ==
  /\ CanStep
  /\ FreeSlots # {}
  /\ \E sh \in Shapes :
       LET f == FirstFree
       IN Done(Op("new", 0, <<sh[1], sh[2], sh[3]>>, FALSE, "", <<f>>),
               [bufs EXCEPT ![f] = NewBuf(f, sh[1], sh[2], sh[3])],
               [arena EXCEPT ![f] = NewData(sh[1], sh[2], sh[3])],
               <<>>)

\* the coordinates set is tried at: every plane and row, the columns at the
\* ends of the row and on either side of the first byte boundary
ProbeXs(width) == {0, 7, 8, width - 1} \cap (0..(width - 1))

Set ==
  /\ CanStep
  /\ \E s \in Slots :
       /\ Usable(s)
       /\ \E p \in 0..(bufs[s].planes - 1), x \in ProbeXs(bufs[s].width),
             y \in 0..(bufs[s].height - 1), v \in BOOLEAN :
            Done(Op("set", s, <<p, x, y>>, v, "", <<>>),
                 bufs,
                 Store(bufs[s], SetBit(bufs[s], AsSlice(s), p, x, y, v)),
                 <<>>)

Fill ==
  /\ CanStep
  /\ \E s \in Slots, v \in BOOLEAN :
       /\ Usable(s)
       /\ Done(Op("fill", s, <<>>, v, "", <<>>),
               bufs, Store(bufs[s], FillBytes(AsSlice(s), v)), <<>>)

FillFromFn ==
  /\ CanStep
  /\ \E s \in Slots, g \in Generators :
       /\ Usable(s)
       /\ LET o == Op("fill_from_fn", s, <<>>, FALSE, g, <<>>)
          IN IF FillFromFnPanics(bufs[s], AsSlice(s))
             THEN Panics("chunk size must be non-zero", o)
             ELSE Done(o, bufs,
                       Store(bufs[s], FillFromFnData(bufs[s], AsSlice(s), g)),
                       FillFromFnCalls(bufs[s], AsSlice(s)))

\* ------------------------------------------------------------------ copy_from
\* the first plane whose prefix of len bytes does not exist on either side
\* (dst_plane[..len] / src_plane[..len] panics there), 0 if there is none
FirstShort(dchunks, schunks, n, len) ==
  LET bad == {i \in 1..n : len > Len(dchunks[i]) \/ len > Len(schunks[i])}
  IN IF bad = {} THEN 0 ELSE CHOOSE i \in bad : \A j \in bad : i <= j

\* dst[..len].copy_from_slice(&src[..len])
CopyPrefix(d, s, len) == SubSeq(s, 1, len) \o SubSeq(d, len + 1, Len(d))

\* chunk-wise copy of the first len bytes of each zipped pair of chunks, up to
\* take of them; stops at the first pair that is too short
CopyChunks(dchunks, schunks, take, len) ==
  LET n == Min(take, Min(Len(dchunks), Len(schunks)))
      k == FirstShort(dchunks, schunks, n, len)
  IN [panic |-> IF k = 0 THEN "" ELSE "range end index out of range",
      data |-> Flatten([i \in 1..Len(dchunks) |->
                 IF i <= n /\ (k = 0 \/ i < k)
                 THEN CopyPrefix(dchunks[i], schunks[i], len)
                 ELSE dchunks[i]])]

\* the per-row strategy on one pair of planes
CopyRows(b, o, dplane, splane) ==
  IF b.row_stride = 0 \/ o.row_stride = 0
  THEN [panic |-> "chunk size must be non-zero", data |-> dplane]
  ELSE CopyChunks(Chunks(dplane, b.row_stride), Chunks(splane, o.row_stride),
                  b.height, (b.width + 7) \div 8)

\* mutant: the height is not compared
GeometryPanicNoHeight(b, o) ==
  IF b.planes # o.planes THEN "different number of planes"
  ELSE IF b.width # o.width THEN "different plane widths"
  ELSE ""

\* the three checks copy_from starts with: the panic message, "" if they pass
GeometryPanic(b, o) ==
  IF b.planes # o.planes THEN "different number of planes"
  ELSE IF b.width # o.width THEN "different plane widths"
  ELSE IF b.height # o.height THEN "different plane heights"
  ELSE ""

\* copy_from(&mut self = b over dst, other = o over src): the panic message
\* ("" if none) and the bytes of self afterwards
CopyFromResult(b, dst, o, src) ==
  IF GeometryPanic(b, o) # "" THEN [panic |-> GeometryPanic(b, o), data |-> dst]
  ELSE IF b.plane_stride = o.plane_stride /\ b.row_stride = o.row_stride
  THEN IF Len(dst) # Len(src)
       THEN [panic |-> "source slice length does not match destination slice length",
             data |-> dst]
       ELSE [panic |-> "", data |-> src]
  ELSE IF b.plane_stride = 0 \/ o.plane_stride = 0
  THEN [panic |-> "chunk size must be non-zero", data |-> dst]
  ELSE IF b.row_stride = o.row_stride
  THEN CopyChunks(Chunks(dst, b.plane_stride), Chunks(src, o.plane_stride),
                  Len(dst), b.row_stride * b.height)
  ELSE LET dch == Chunks(dst, b.plane_stride)
           sch == Chunks(src, o.plane_stride)
           n == Min(Len(dch), Len(sch))
           res == [i \in 1..n |-> CopyRows(b, o, dch[i], sch[i])]
           bad == {i \in 1..n : res[i].panic # ""}
           k == IF bad = {} THEN 0 ELSE CHOOSE i \in bad : \A j \in bad : i <= j
       IN [panic |-> IF k = 0 THEN "" ELSE res[k].panic,
           data |-> Flatten([i \in 1..Len(dch) |->
                      IF i <= n /\ (k = 0 \/ i <= k) THEN res[i].data ELSE dch[i]])]

CopyFrom ==
  /\ CanStep
  /\ \E d \in Slots, s \in Slots :
       /\ d # s
       /\ Usable(d)
       /\ Usable(s)
       /\ LET r == CopyFromResult(bufs[d], AsSlice(d), bufs[s], AsSlice(s))
              o == Op("copy_from", d, <<s>>, FALSE, "", <<>>)
          IN /\ bufs' = bufs
             /\ arena' = Store(bufs[d], r.data)
             /\ panic' = r.panic
             /\ last' = o
             /\ pre' = arena
             /\ calls' = <<>>
             /\ nops' = nops + 1
             /\ UNCHANGED overflow_checks

\* ------------------------------------------------------------------ views
\* plane_range(start..end) on buffer b held in slot s; checks: the build has
\* integer overflow checks on
\* mutant: the first byte found with the row stride
RangeStartByRows(b, start) == start * b.row_stride

RangeStart(b, start) == start * b.plane_stride

PlaneRangeResult(b, s, start, end, checks) ==
  LET bs == RangeStart(b, start)
      be == end * b.plane_stride
  IN IF start > end /\ checks
     THEN [panic |-> "attempt to subtract with overflow", view |-> NoBuf]
     ELSE IF bs > be
     THEN [panic |-> "slice index starts after its end", view |-> NoBuf]
     ELSE IF be > b.len
     THEN [panic |-> "range end index out of range", view |-> NoBuf]
     ELSE [panic |-> "",
           view |-> [kind |-> "view", width |-> b.width, height |-> b.height,
                     planes |-> WrapSub(end, start),
                     plane_stride |-> b.plane_stride, row_stride |-> b.row_stride,
                     root |-> b.root, off |-> b.off + bs, len |-> be - bs,
                     parent |-> s]]

ViewStep(name, s, start, end, args) ==
  LET r == PlaneRangeResult(bufs[s], s, start, end, overflow_checks)
      f == FirstFree
  IN IF r.panic # ""
     THEN Panics(r.panic, Op(name, s, args, FALSE, "", <<>>))
     ELSE Done(Op(name, s, args, FALSE, "", <<f>>),
               [bufs EXCEPT ![f] = r.view], arena, <<>>)

PlaneRange ==
  /\ CanStep
  /\ FreeSlots # {}
  /\ \E s \in Slots, start \in 0..(MaxPlanes + 1), end \in 0..(MaxPlanes + 1) :
       /\ Usable(s)
       /\ ViewStep("plane_range", s, start, end, <<start, end>>)

Plane ==
  /\ CanStep
  /\ FreeSlots # {}
  /\ \E s \in Slots, n \in 0..MaxPlanes :
       /\ Usable(s)
       /\ ViewStep("plane", s, n, n + 1, <<n>>)

\* mutant: the second half keeps the whole region
SplitAtMutWhole(off, len, mid) ==
  <<[off |-> off, len |-> mid], [off |-> off, len |-> len]>>

\* data.split_at_mut(mid) for mid <= len: the two regions, as (off, len)
SplitAtMut(off, len, mid) ==
  <<[off |-> off, len |-> mid], [off |-> off + mid, len |-> len - mid]>>

\* split_at_plane(p)
SplitResult(b, s, p, checks) ==
  LET split == p * b.plane_stride
      d == SplitAtMut(b.off, b.len, split)
      v == [kind |-> "view", width |-> b.width, height |-> b.height,
            planes |-> p,
            plane_stride |-> b.plane_stride, row_stride |-> b.row_stride,
            root |-> b.root, off |-> d[1].off, len |-> d[1].len, parent |-> s]
  IN IF split > b.len
     THEN [panic |-> "mid > len", p0 |-> NoBuf, p1 |-> NoBuf]
     ELSE IF p > b.planes /\ checks
     THEN [panic |-> "attempt to subtract with overflow", p0 |-> NoBuf, p1 |-> NoBuf]
     ELSE [panic |-> "", p0 |-> v,
           p1 |-> [v EXCEPT !.planes = WrapSub(b.planes, p),
                            !.off = d[2].off, !.len = d[2].len]]

SplitAtPlane ==
  /\ CanStep
  /\ Cardinality(FreeSlots) >= 2
  /\ \E s \in Slots, p \in 0..(MaxPlanes + 1) :
       /\ Usable(s)
       /\ LET r == SplitResult(bufs[s], s, p, overflow_checks)
              f0 == FirstFree
              f1 == CHOOSE t \in FreeSlots \ {f0} : \A u \in FreeSlots \ {f0} : t <= u
          IN IF r.panic # ""
             THEN Panics(r.panic, Op("split_at_plane", s, <<p>>, FALSE, "", <<>>))
             ELSE Done(Op("split_at_plane", s, <<p>>, FALSE, "", <<f0, f1>>),
                       [bufs EXCEPT ![f0] = r.p0, ![f1] = r.p1], arena, <<>>)

\* mutant: the planes taken in the order given
OrderPlanesAsGiven(a, c) == <<a, c>>

\* (p0.min(p1), p0.max(p1))
OrderPlanes(a, c) == <<Min(a, c), Max(a, c)>>

\* swap_planes(a, c) over the bytes data of buffer b
SwapResult(b, data, a, c) ==
  IF a = c THEN [panic |-> "cannot swap plane with itself", data |-> data]
  ELSE LET p0 == OrderPlanes(a, c)[1]
           p1 == OrderPlanes(a, c)[2]
           split == p1 * b.plane_stride
           start == p0 * b.plane_stride
           end == start + b.plane_stride
       IN IF split > Len(data) THEN [panic |-> "mid > len", data |-> data]
          ELSE IF end > split \/ b.plane_stride > Len(data) - split
          THEN [panic |-> "range end index out of range", data |-> data]
          ELSE [panic |-> "",
                data |-> SubSeq(data, 1, start)
                         \o SubSeq(data, split + 1, split + b.plane_stride)
                         \o SubSeq(data, end + 1, split)
                         \o SubSeq(data, start + 1, end)
                         \o SubSeq(data, split + b.plane_stride + 1, Len(data))]

SwapPlanes ==
  /\ CanStep
  /\ \E s \in Slots, a \in 0..MaxPlanes, c \in 0..MaxPlanes :
       /\ Usable(s)
       /\ LET r == SwapResult(bufs[s], AsSlice(s), a, c)
              o == Op("swap_planes", s, <<a, c>>, FALSE, "", <<>>)
          IN IF r.panic # "" THEN Panics(r.panic, o)
             ELSE Done(o, bufs, Store(bufs[s], r.data), <<>>)

ToOwned ==
  /\ CanStep
  /\ FreeSlots # {}
  /\ \E s \in Slots :
       /\ Usable(s)
       /\ LET f == FirstFree
          IN Done(Op("to_owned", s, <<>>, FALSE, "", <<f>>),
                  [bufs EXCEPT ![f] = [bufs[s] EXCEPT !.kind = "owned", !.root = f,
                                                      !.off = 0, !.parent = 0,
                                                      !.len = Len(AsSlice(s))]],
                  [arena EXCEPT ![f] = AsSlice(s)], <<>>)

\* a view goes out of scope: the &mut borrow of its parent ends
EndBorrow ==
  /\ CanStep
  /\ \E s \in Slots :
       /\ Usable(s)
       /\ bufs[s].kind = "view"
       /\ Done(Op("drop", s, <<>>, FALSE, "", <<>>),
               [bufs EXCEPT ![s] = NoBuf], arena, <<>>)

Next ==
  \/ New
  \/ Set
  \/ Fill
  \/ FillFromFn
  \/ CopyFrom
  \/ Plane
  \/ PlaneRange
  \/ SwapPlanes
  \/ SplitAtPlane
  \/ ToOwned
  \/ EndBorrow

Spec == Init /\ [][Next]_vars

\* ------------------------------------------------------------------ copy_from over custom layouts
\* copy_from applied to two buffers of one geometry whose strides carry up
\* to MaxPad bytes of padding each (row_stride >= ceil(width/8),
\* plane_stride >= row_stride*height), storage exactly plane_stride*planes.
\* Such layouts are what Bitplanes' struct literal allows inside its module;
\* new() itself builds only the unpadded one.
Layouts(width, height) ==
  UNION {{<<rs, ps>> : ps \in (rs * height)..(rs * height + MaxPad)} :
           rs \in ((width + 7) \div 8)..((width + 7) \div 8 + MaxPad)}

CustomBuf(slot, planes, width, height, lay) ==
  [kind |-> "owned", width |-> width, height |-> height, planes |-> planes,
   plane_stride |-> lay[2], row_stride |-> lay[1],
   root |-> slot, off |-> 0, len |-> lay[2] * planes, parent |-> 0]

\* bytes that differ from one index to the next, padding included
PatternBytes(n, seed) == [i \in 1..n |-> (37 * i + seed) % 256]

InitCopy ==
  \E sh \in Shapes, seed \in {11, 200} :
    \E dl \in Layouts(sh[2], sh[3]), sl \in Layouts(sh[2], sh[3]) :
      /\ bufs = [s \in Slots |->
                   IF s = 1 THEN CustomBuf(1, sh[1], sh[2], sh[3], dl)
                   ELSE IF s = 2 THEN CustomBuf(2, sh[1], sh[2], sh[3], sl)
                   ELSE NoBuf]
      /\ arena = [s \in Slots |->
                    IF s = 1 THEN PatternBytes(dl[2] * sh[1], 255 - seed)
                    ELSE IF s = 2 THEN PatternBytes(sl[2] * sh[1], seed)
                    ELSE <<>>]
      /\ panic = ""
      /\ last = Op("custom", 0, <<sh[1], sh[2], sh[3]>>, FALSE, "", <<1, 2>>)
      /\ pre = [s \in Slots |-> <<>>]
      /\ calls = <<>>
      /\ nops = 0
      /\ overflow_checks \in BOOLEAN

NextCopy == CopyFrom

SpecCopy == InitCopy /\ [][NextCopy]_vars

\* ================================================================== claims
\* what the claims are stated with
BitAt(byte, j) == (byte \div (2^j)) % 2
CeilDiv8(w) == IF w % 8 = 0 THEN w \div 8 ELSE (w \div 8) + 1
\* the bytes of every arena outside the slice of buffer b are as before
OutsideUnchanged(b) ==
  /\ \A r \in Slots : r # b.root => arena[r] = pre[r]
  /\ Len(arena[b.root]) = Len(pre[b.root])
  /\ \A k \in 1..Len(pre[b.root]) :
       (k <= b.off \/ k > b.off + b.len) => arena[b.root][k] = pre[b.root][k]
Writes == {"set", "fill", "fill_from_fn", "swap_planes", "copy_from"}
Siblings(s, t) ==
  /\ s < t
  /\ bufs[s].kind = "view"
  /\ bufs[t].kind = "view"
  /\ bufs[s].parent = bufs[t].parent

\* C1: set(p,x,y,v) at an in-range coordinate changes at most bit 7-(x mod 8)
\* of the byte at plane_stride*p + row_stride*y + x/8 of the buffer's storage
\* and nothing else; afterwards get(p,x,y) is v and get at every other
\* in-range coordinate is what it was.
C1_SetWritesOneBit ==
  (last.op = "set" /\ panic = "") =>
    LET b == bufs[last.b]
        p == last.a[1]
        x == last.a[2]
        y == last.a[3]
        idx == (b.plane_stride * p) + (b.row_stride * y) + (x \div 8)
        bit == 7 - (x % 8)
        old == SliceOf(b, pre)
        new == SliceOf(b, arena)
    IN /\ OutsideUnchanged(b)
       /\ Len(new) = Len(old)
       /\ idx < Len(new)
       /\ \A k \in 1..Len(old), j \in 0..7 :
            (k # idx + 1 \/ j # bit) => BitAt(new[k], j) = BitAt(old[k], j)
       /\ BitAt(new[idx + 1], bit) = (IF last.v THEN 1 ELSE 0)
       /\ GetBit(b, new, p, x, y) = last.v
       /\ \A xx \in 0..(b.width - 1), yy \in 0..(b.height - 1), pp \in 0..(b.planes - 1) :
            <<pp, xx, yy>> # <<p, x, y>> =>
              GetBit(b, new, pp, xx, yy) = GetBit(b, old, pp, xx, yy)

\* the scenario of the specification, on a buffer of width 10 and height 2:
\* set(1, 9, 1, true) on zeroed storage leaves 64 (bit 6) in byte 7
C1_Witness ==
  /\ last.op = "set"
  /\ panic = ""
  /\ last.a = <<1, 9, 1>>
  /\ last.v
  /\ bufs[last.b].width = 10
  /\ bufs[last.b].height = 2
  /\ bufs[last.b].planes = 3
  /\ \A k \in 1..12 : pre[bufs[last.b].root][k] = 0
  /\ arena[bufs[last.b].root][8] = 64

\* C7: every buffer has row_stride = ceil(width/8), plane_stride =
\* row_stride*height and a storage region of exactly plane_stride*planes
\* bytes; a buffer fresh from new reads false everywhere.
C7_GeometryInvariant ==
  /\ \A s \in Slots :
       Live(s) =>
         LET b == bufs[s]
         IN /\ b.row_stride = CeilDiv8(b.width)
            /\ b.plane_stride = b.row_stride * b.height
            /\ b.len = b.plane_stride * b.planes
            /\ b.off + b.len <= Len(arena[b.root])
            /\ Len(AsSlice(s)) = b.plane_stride * b.planes
            /\ b.kind = "owned" => Len(arena[s]) = b.plane_stride * b.planes
  /\ (last.op = "new" /\ panic = "") =>
       LET b == bufs[last.out[1]]
       IN /\ b.planes = last.a[1] /\ b.width = last.a[2] /\ b.height = last.a[3]
          /\ \A k \in 1..Len(arena[b.root]) : arena[b.root][k] = 0
          /\ \A x \in 0..(b.width - 1), y \in 0..(b.height - 1), p \in 0..(b.planes - 1) :
               ~Get(last.out[1], p, x, y)

\* an owned copy of a two-plane view of a three-plane buffer of width 10
C7_Witness ==
  /\ last.op = "to_owned"
  /\ panic = ""
  /\ bufs[last.b].kind = "view"
  /\ bufs[last.b].planes = 2
  /\ bufs[bufs[last.b].parent].planes = 3
  /\ bufs[last.out[1]].kind = "owned"
  /\ bufs[last.out[1]].width = 10
  /\ bufs[last.out[1]].height = 2
  /\ Len(arena[last.out[1]]) = 8

\* C10: copy_from between buffers that differ in plane count, width or height
\* panics and leaves every byte as it was; so does swap_planes(p, p).
C10_FatalErrorsLeaveStorage ==
  /\ (last.op = "copy_from"
        /\ (bufs[last.b].planes # bufs[last.a[1]].planes
              \/ bufs[last.b].width # bufs[last.a[1]].width
              \/ bufs[last.b].height # bufs[last.a[1]].height))
       => (panic # "" /\ arena = pre)
  /\ (last.op = "swap_planes" /\ last.a[1] = last.a[2])
       => (panic # "" /\ arena = pre)

\* a copy refused for its height alone, into storage that held set bits
C10_Witness ==
  /\ last.op = "copy_from"
  /\ panic = "different plane heights"
  /\ bufs[last.b].planes > 0
  /\ bufs[last.b].width = 10
  /\ \E k \in 1..Len(AsSlice(last.b)) : AsSlice(last.b)[k] # 0

\* C3: split_at_plane(p) with p <= planes yields two views that partition the
\* parent's storage: the first has p planes over bytes [0, p*plane_stride),
\* the second the remaining planes over the remaining bytes; their bytes in
\* order are the parent's bytes, and a write through one leaves every byte
\* of the other as it was.  (Two live views of one parent exist only as the
\* two halves of a split; the lower slot holds the first.)
C3_SplitPartitions ==
  /\ (last.op = "split_at_plane" /\ last.a[1] <= bufs[last.b].planes) =>
       /\ panic = ""
       /\ Siblings(last.out[1], last.out[2])
       /\ bufs[last.out[1]].parent = last.b
       /\ bufs[last.out[1]].planes = last.a[1]
  /\ \A s \in Slots, t \in Slots :
    (Siblings(s, t) /\ bufs[s].planes <= bufs[bufs[s].parent].planes) =>
      LET q == bufs[bufs[s].parent]
          v0 == bufs[s]
          v1 == bufs[t]
      IN /\ v0.planes + v1.planes = q.planes
         /\ v0.off = q.off
         /\ v0.len = v0.planes * q.plane_stride
         /\ v1.off = q.off + v0.len
         /\ v1.len = q.len - v0.len
         /\ AsSlice(s) \o AsSlice(t) = SliceOf(q, arena)
         /\ (last.op \in Writes /\ last.b = s) => SliceOf(v1, arena) = SliceOf(v1, pre)
         /\ (last.op \in Writes /\ last.b = t) => SliceOf(v0, arena) = SliceOf(v0, pre)

\* both halves hold bytes, and a fill through the second one changed it
C3_Witness ==
  \E s \in Slots, t \in Slots :
    /\ Siblings(s, t)
    /\ bufs[s].planes = 1
    /\ bufs[t].planes = 2
    /\ bufs[s].len > 0
    /\ last.op = "fill"
    /\ last.b = t
    /\ panic = ""
    /\ SliceOf(bufs[t], arena) # SliceOf(bufs[t], pre)
    /\ \E k \in 1..bufs[s].len : AsSlice(s)[k] # 255

\* C4: the view plane_range(start..end) returns for start <= end <= planes
\* (plane(n) is plane_range(n..n+1)) has the parent's width, height and
\* strides and end-start planes, reads at (i,x,y) what the parent reads at
\* (start+i,x,y), and a set through it at (i,x,y) changes the parent's bit
\* (start+i,x,y) alone.
C4_RangeViewSharesBytes ==
  /\ (last.op \in {"plane_range", "plane"}) =>
       LET q == bufs[last.b]
           v == bufs[last.out[1]]
           start == last.a[1]
           end == IF last.op = "plane" THEN last.a[1] + 1 ELSE last.a[2]
       IN (start <= end /\ end <= q.planes) =>
            /\ panic = ""
            /\ v.parent = last.b
            /\ v.width = q.width /\ v.height = q.height
            /\ v.row_stride = q.row_stride /\ v.plane_stride = q.plane_stride
            /\ v.planes = end - start
            /\ \A x \in 0..(v.width - 1), y \in 0..(v.height - 1), i \in 0..(v.planes - 1) :
                 Get(last.out[1], i, x, y) = Get(last.b, start + i, x, y)
  /\ (last.op = "set" /\ panic = "" /\ bufs[last.b].kind = "view") =>
       LET v == bufs[last.b]
           q == bufs[v.parent]
           start == (v.off - q.off) \div q.plane_stride
       IN /\ start + v.planes <= q.planes
          /\ Get(v.parent, start + last.a[1], last.a[2], last.a[3]) = last.v
          /\ \A x \in 0..(q.width - 1), y \in 0..(q.height - 1), p \in 0..(q.planes - 1) :
               <<p, x, y>> # <<start + last.a[1], last.a[2], last.a[3]>> =>
                 Get(v.parent, p, x, y) = GetBit(q, SliceOf(q, pre), p, x, y)
          /\ \A k \in 1..q.len :
               (k <= start * q.plane_stride \/ k > (start + v.planes) * q.plane_stride)
                 => SliceOf(q, arena)[k] = SliceOf(q, pre)[k]

\* a set through the only view of its parent, a view that starts past plane 0
\* and stops short of the last plane, flipped a bit
C4_Witness ==
  /\ last.op = "set"
  /\ panic = ""
  /\ bufs[last.b].kind = "view"
  /\ \A t \in Slots : (Live(t) /\ t # last.b) => bufs[t].parent # bufs[last.b].parent
  /\ bufs[last.b].off = bufs[bufs[last.b].parent].plane_stride
  /\ bufs[last.b].planes = 1
  /\ bufs[bufs[last.b].parent].planes = 3
  /\ arena # pre

\* C5: swap_planes(a,b) with a # b, both in range, exchanges the bytes of
\* plane a and plane b and leaves every other plane's bytes alone; applied
\* once more with the same arguments it gives back the bytes it started from.
C5_SwapExchanges ==
  (last.op = "swap_planes" /\ last.a[1] # last.a[2]
     /\ last.a[1] < bufs[last.b].planes /\ last.a[2] < bufs[last.b].planes) =>
    LET b == bufs[last.b]
        old == SliceOf(b, pre)
        new == SliceOf(b, arena)
        ps == b.plane_stride
        PlaneBytes(d, n) == SubSeq(d, n * ps + 1, (n + 1) * ps)
        again == SwapResult(b, new, last.a[1], last.a[2])
    IN /\ panic = ""
       /\ OutsideUnchanged(b)
       /\ Len(new) = Len(old)
       /\ PlaneBytes(new, last.a[1]) = PlaneBytes(old, last.a[2])
       /\ PlaneBytes(new, last.a[2]) = PlaneBytes(old, last.a[1])
       /\ \A n \in 0..(b.planes - 1) :
            (n # last.a[1] /\ n # last.a[2]) => PlaneBytes(new, n) = PlaneBytes(old, n)
       /\ again.panic = ""
       /\ again.data = old

\* planes 2 and 0 of a three-plane buffer, given in descending order, held
\* different bytes and were exchanged
C5_Witness ==
  /\ last.op = "swap_planes"
  /\ panic = ""
  /\ last.a = <<2, 0>>
  /\ bufs[last.b].planes = 3
  /\ bufs[last.b].plane_stride = 4
  /\ arena # pre

\* C6: fill_from_fn (and from_fn) calls the generator exactly once for every
\* in-range coordinate and for no other, and afterwards get agrees with the
\* generator at every in-range coordinate whatever the buffer held before.
C6_GeneratorVisitsEachOnce ==
  (last.op \in {"fill_from_fn", "from_fn"}) =>
    LET planes == IF last.op = "from_fn" THEN last.a[1] ELSE bufs[last.b].planes
        width == IF last.op = "from_fn" THEN last.a[2] ELSE bufs[last.b].width
        height == IF last.op = "from_fn" THEN last.a[3] ELSE bufs[last.b].height
        slot == IF last.op = "from_fn" THEN 1 ELSE last.b
    IN /\ \A k \in 1..Len(calls) :
            /\ calls[k][1] < planes /\ calls[k][2] < width /\ calls[k][3] < height
            /\ \A m \in 1..Len(calls) : calls[m] = calls[k] => m = k
       /\ \A x \in 0..(width - 1), y \in 0..(height - 1), p \in 0..(planes - 1) :
            /\ \E k \in 1..Len(calls) : calls[k] = <<p, x, y>>
            /\ panic = "" => Get(slot, p, x, y) = Gen(last.g, p, x, y)

\* a view over planes that held another pattern was refilled
C6_Witness ==
  /\ last.op = "fill_from_fn"
  /\ panic = ""
  /\ bufs[last.b].kind = "view"
  /\ bufs[last.b].planes = 2
  /\ bufs[last.b].off > 0
  /\ Len(calls) = 40
  /\ arena # pre
  /\ \E k \in 1..bufs[last.b].len : SliceOf(bufs[last.b], pre)[k] # 0

\* C8: construction, fill, generator fill, view creation with in-range
\* arguments and copy between buffers of one geometry never fail, zero-size
\* geometries included.
C8_TotalOperations ==
  /\ last.op \in {"new", "from_fn", "fill", "fill_from_fn"} => panic = ""
  /\ (last.op = "plane_range" /\ last.a[1] <= last.a[2]
        /\ last.a[2] <= bufs[last.b].planes) => panic = ""
  /\ (last.op = "plane" /\ last.a[1] < bufs[last.b].planes) => panic = ""
  /\ (last.op = "split_at_plane" /\ last.a[1] <= bufs[last.b].planes) => panic = ""
  /\ (last.op = "copy_from"
        /\ bufs[last.b].planes = bufs[last.a[1]].planes
        /\ bufs[last.b].width = bufs[last.a[1]].width
        /\ bufs[last.b].height = bufs[last.a[1]].height) => panic = ""

\* C9: plane_range(start..end) fails whenever start > end or end > planes,
\* also on a buffer whose plane_stride is 0; no view it returns has more
\* planes than its parent or bytes outside the parent's storage.
C9_RangeChecked ==
  (last.op = "plane_range") =>
    /\ (last.a[1] > last.a[2] \/ last.a[2] > bufs[last.b].planes) => panic # ""
    /\ panic = "" =>
         /\ bufs[last.out[1]].planes <= bufs[last.b].planes
         /\ bufs[last.out[1]].off >= bufs[last.b].off
         /\ bufs[last.out[1]].off + bufs[last.out[1]].len
              <= bufs[last.b].off + bufs[last.b].len

\* C2: copy_from between two buffers of one geometry, whatever their strides,
\* returns normally and leaves dst reading as src at every in-range
\* coordinate; when both strides match, dst's bytes equal src's.
C2_CopyAnyLayout ==
  (last.op = "copy_from"
     /\ bufs[last.b].planes = bufs[last.a[1]].planes
     /\ bufs[last.b].width = bufs[last.a[1]].width
     /\ bufs[last.b].height = bufs[last.a[1]].height) =>
    LET d == bufs[last.b]
        o == bufs[last.a[1]]
    IN /\ panic = ""
       /\ \A x \in 0..(d.width - 1), y \in 0..(d.height - 1), p \in 0..(d.planes - 1) :
            Get(last.b, p, x, y) = Get(last.a[1], p, x, y)
       /\ (d.plane_stride = o.plane_stride /\ d.row_stride = o.row_stride)
            => AsSlice(last.b) = AsSlice(last.a[1])

\* the same statement for geometries with width > 0 and height > 0, where no
\* stride is 0: there the three strategies agree
CopyNonDegenerate ==
  (bufs[1].width > 0 /\ bufs[1].height > 0) => C2_CopyAnyLayout
====
